---- MODULE Spec2Model ----
(***************************************************************************)
(* Chunked dataset transfer and retrying query of the Bagel client         *)
(* (src/python/bagel/api/fastapi.py): FastAPI.upload_dataset,              *)
(* FastAPI._upload_chunk, FastAPI.load_dataset, FastAPI._query and         *)
(* raise_bagel_error.                                                      *)
(*                                                                         *)
(* Text (a file, a chunk payload, a field) is a sequence of one-character  *)
(* strings over Chars.                                                     *)
(***************************************************************************)
EXTENDS Integers, Sequences, FiniteSets, TLC

VARIABLES
    \* ---- upload_dataset ----
    file,            \* content of the file at file_path
    rows_per_chunk,  \* argument rows_per_chunk
    upload_pc,       \* "start", "loop", "done", "raised"
    upload_exc,      \* exception that left upload_dataset, or "none"
    total_rows,      \* pbar.total
    pbar_n,          \* pbar.n, the progress count
    header_str,      \* the escaped header line, with its newline
    reader_pos,      \* position of csv.reader in the file
    rows,            \* buffer of encoded rows
    chunk_number,    \* chunk counter
    uploads,         \* history of the POSTs to /upload-dataset
    printed,         \* what upload_dataset printed
    file_path,       \* argument file_path
    file_name,       \* local file_name (argument, then reassigned)
    arg_file_name,   \* the file_name the caller passed
    dataset_id       \* argument dataset_id

upload_vars == <<file, rows_per_chunk, upload_pc, upload_exc, total_rows, pbar_n,
                 header_str, reader_pos, rows, chunk_number, uploads, printed,
                 file_path, file_name, arg_file_name, dataset_id>>

VARIABLES
    \* ---- _query ----
    query_pc,        \* "loop", "after_loop", "done"
    attempt,         \* loop variable of the retry loop
    resp,            \* local resp: the last response received
    query_log,       \* history of the requests issued and the delays taken
    slept,           \* seconds spent in time.sleep
    query_outcome    \* what _query returned or raised

query_vars == <<query_pc, attempt, resp, query_log, slept, query_outcome>>

VARIABLES
    \* ---- load_dataset ----
    load_pc,            \* "start", "loop", "returned", "raised"
    load_exc,           \* exception that left load_dataset, or "none"
    total_chunks,       \* total_chunks of the metadata answer
    load_chunk_number,  \* loop variable chunk_number
    dfs,                \* the dataframes of the chunks read so far
    load_log,           \* history of the GETs and their answers
    full_df             \* the table load_dataset returned

load_vars == <<load_pc, load_exc, total_chunks, load_chunk_number, dfs, load_log, full_df>>

vars == <<upload_vars, query_vars, load_vars>>

-----------------------------------------------------------------------------
(* Bounds *)

MaxFileLen == 6
MaxRowsPerChunk == 3
MaxChunks == 3

-----------------------------------------------------------------------------
(* Text *)

QUOTE == "\""
COMMA == ","
NL == "\n"
Chars == {"a", QUOTE, COMMA, NL}

Texts(n) == UNION {[1..m -> Chars] : m \in 0..n}

Range(seq) == {seq[i] : i \in 1..Len(seq)}

Min(a, b) == IF a < b THEN a ELSE b
Max(a, b) == IF a < b THEN b ELSE a

RECURSIVE join(_, _)
\* sep.join(parts)
join(parts, sep) ==
    IF parts = <<>> THEN <<>>
    ELSE IF Len(parts) = 1 THEN parts[1]
    ELSE parts[1] \o sep \o join(Tail(parts), sep)

RECURSIVE replace_quotes(_)
\* field.replace('"', '""')
replace_quotes(field) ==
    IF field = <<>> THEN <<>>
    ELSE (IF Head(field) = QUOTE THEN <<QUOTE, QUOTE>> ELSE <<Head(field)>>)
         \o replace_quotes(Tail(field))

\* '"{}"'.format(field.replace('"', '""'))
quoted_field(field) == <<QUOTE>> \o replace_quotes(field) \o <<QUOTE>>

\* ['"{}"'.format(field.replace('"', '""')) for field in row], joined with ','
quoted_row(row) == join([i \in 1..Len(row) |-> quoted_field(row[i])], <<COMMA>>)

RECURSIVE splitlines(_, _)
\* str.splitlines(): the lines of text, without their terminators; a
\* terminator at the very end opens no further line.  cur is the line being read.
splitlines(text, cur) ==
    IF text = <<>> THEN (IF cur = <<>> THEN <<>> ELSE <<cur>>)
    ELSE IF Head(text) = NL THEN <<cur>> \o splitlines(Tail(text), <<>>)
    ELSE splitlines(Tail(text), Append(cur, Head(text)))

\* sum(1 for row in file): the number of physical lines of the file
file_lines(text) ==
    Cardinality({i \in 1..Len(text) : text[i] = NL})
    + (IF Len(text) > 0 /\ text[Len(text)] # NL THEN 1 ELSE 0)

-----------------------------------------------------------------------------
(* csv.reader(file), default dialect: delimiter ',', quotechar '"',        *)
(* doublequote, not strict.  One call reads one record starting at i and   *)
(* returns its fields and the position after it.                           *)

RECURSIVE parse_record(_, _, _, _, _)
parse_record(text, i, state, field, fields) ==
    IF i > Len(text)
    THEN \* the line iterator is exhausted (or the last line has no terminator)
         [fields |-> IF state = "START_RECORD" THEN fields ELSE Append(fields, field),
          pos |-> i,
          open_quote |-> state = "IN_QUOTED_FIELD"]
    ELSE LET c == text[i] IN
         CASE state = "START_RECORD" ->
                IF c = NL THEN [fields |-> fields, pos |-> i + 1, open_quote |-> FALSE]
                ELSE parse_record(text, i, "START_FIELD", field, fields)
           [] state = "START_FIELD" ->
                IF c = NL THEN [fields |-> Append(fields, <<>>), pos |-> i + 1, open_quote |-> FALSE]
                ELSE IF c = QUOTE
                     THEN parse_record(text, i + 1, "IN_QUOTED_FIELD", <<>>, fields)
                ELSE IF c = COMMA
                     THEN parse_record(text, i + 1, "START_FIELD", <<>>, Append(fields, <<>>))
                ELSE parse_record(text, i + 1, "IN_FIELD", <<c>>, fields)
           [] state = "IN_FIELD" ->
                IF c = NL THEN [fields |-> Append(fields, field), pos |-> i + 1, open_quote |-> FALSE]
                ELSE IF c = COMMA
                     THEN parse_record(text, i + 1, "START_FIELD", <<>>, Append(fields, field))
                ELSE parse_record(text, i + 1, "IN_FIELD", Append(field, c), fields)
           [] state = "IN_QUOTED_FIELD" ->
                IF c = QUOTE
                THEN parse_record(text, i + 1, "QUOTE_IN_QUOTED_FIELD", field, fields)
                ELSE parse_record(text, i + 1, "IN_QUOTED_FIELD", Append(field, c), fields)
           [] state = "QUOTE_IN_QUOTED_FIELD" ->
                IF c = QUOTE
                THEN parse_record(text, i + 1, "IN_QUOTED_FIELD", Append(field, c), fields)
                ELSE IF c = COMMA
                     THEN parse_record(text, i + 1, "START_FIELD", <<>>, Append(fields, field))
                ELSE IF c = NL THEN [fields |-> Append(fields, field), pos |-> i + 1, open_quote |-> FALSE]
                ELSE parse_record(text, i + 1, "IN_FIELD", Append(field, c), fields)

\* next(reader) with the reader at position i; defined when has_next(text, i)
next_record(text, i) == parse_record(text, i, "START_RECORD", <<>>, <<>>)

\* whether next(reader) yields a record (otherwise it raises StopIteration)
has_next(text, i) == i <= Len(text)

-----------------------------------------------------------------------------
(* FastAPI.upload_dataset and FastAPI._upload_chunk *)

\* status codes the remote side answers a chunk submission with
UploadStatusCodes == {200, 500}

\* mutant of chunk_full: the buffer is flushed one row late
chunk_full_late(buffer, k) == Len(buffer) = k + 1

\* len(rows) == rows_per_chunk
chunk_full(buffer, k) == Len(buffer) = k

\* mutant of make_chunk_data: the first buffered row is left out
make_chunk_data_drop_first(hdr, buffer) == hdr \o join(Tail(buffer), <<NL>>)

\* chunk_data = header_str + '\n'.join(rows)
make_chunk_data(hdr, buffer) == hdr \o join(buffer, <<NL>>)

\* mutant of next_chunk_number: the number of a refused chunk is used again
next_chunk_number_reuse ==
    IF uploads # <<>> /\ uploads[Len(uploads)].status_code # 200
    THEN chunk_number ELSE chunk_number + 1

\* chunk_number += 1
next_chunk_number == chunk_number + 1

\* len(chunk_data.splitlines()) - 1
progress_step(chunk_data) == Len(splitlines(chunk_data, <<>>)) - 1

\* the multipart request of _upload_chunk
upload_request(chunk_data, number) ==
    [data_file |-> [name |-> file_name, content |-> chunk_data],
     dataset_id |-> dataset_id,
     chunk_number |-> number]

\* what _upload_chunk has printed after a response with status_code
chunk_printed(number, status_code) ==
    IF status_code = 200 THEN printed
    ELSE Append(printed, <<"Failed to upload chunk", number, status_code>>)

\* _upload_chunk when requests.post returns a response with status_code
upload_chunk(chunk_data, number, buffer, status_code) ==
    /\ uploads' = Append(uploads, [request |-> upload_request(chunk_data, number),
                                   rows |-> buffer,
                                   raised |-> FALSE,
                                   status_code |-> status_code])
    /\ pbar_n' = IF status_code = 200 THEN pbar_n + progress_step(chunk_data)
                 ELSE pbar_n

\* _upload_chunk when requests.post raises: nothing catches the exception,
\* it leaves _upload_chunk and upload_dataset
upload_chunk_raises(chunk_data, number, buffer) ==
    /\ uploads' = Append(uploads, [request |-> upload_request(chunk_data, number),
                                   rows |-> buffer,
                                   raised |-> TRUE,
                                   status_code |-> 0])
    /\ upload_pc' = "raised"
    /\ upload_exc' = "ConnectionError"
    /\ UNCHANGED <<pbar_n, printed>>

\* _query is not running
QueryIdle ==
    /\ query_pc = "idle"
    /\ attempt = 0
    /\ resp = [status_code |-> 0, body |-> [unset |-> TRUE]]
    /\ query_log = <<>>
    /\ slept = 0
    /\ query_outcome = [kind |-> "none"]

\* upload_dataset is not running
UploadIdle ==
    /\ file = <<>>
    /\ rows_per_chunk = 1
    /\ file_path = "data/table.csv"
    /\ arg_file_name = "table"
    /\ file_name = arg_file_name
    /\ dataset_id = "dataset-1"
    /\ upload_pc = "idle"
    /\ upload_exc = "none"
    /\ total_rows = 0
    /\ pbar_n = 0
    /\ header_str = <<>>
    /\ reader_pos = 1
    /\ rows = <<>>
    /\ chunk_number = 0
    /\ uploads = <<>>
    /\ printed = <<>>

\* load_dataset is not running
LoadIdle ==
    /\ load_pc = "idle"
    /\ load_exc = "none"
    /\ total_chunks = 0
    /\ load_chunk_number = 1
    /\ dfs = <<>>
    /\ load_log = <<>>
    /\ full_df = [returned |-> FALSE]

\* a call of upload_dataset is about to run
UploadStart ==
    /\ file \in Texts(MaxFileLen)
    /\ rows_per_chunk \in 1..MaxRowsPerChunk
    /\ file_path = "data/table.csv"
    /\ arg_file_name = "table"
    /\ file_name = arg_file_name
    /\ dataset_id = "dataset-1"
    /\ upload_pc = "start"
    /\ upload_exc = "none"
    /\ total_rows = 0
    /\ pbar_n = 0
    /\ header_str = <<>>
    /\ reader_pos = 1
    /\ rows = <<>>
    /\ chunk_number = 0
    /\ uploads = <<>>
    /\ printed = <<>>

UploadInit == QueryIdle /\ LoadIdle /\ UploadStart

\* lines 569-588: the pre-scan, the progress bar, the header
UploadOpen ==
    /\ upload_pc = "start"
    /\ total_rows' = file_lines(file) - 1
    /\ pbar_n' = 0
    /\ file_name' = file_path
    /\ IF has_next(file, 1)
       THEN LET header == next_record(file, 1) IN
            /\ header_str' = quoted_row(header.fields) \o <<NL>>
            /\ reader_pos' = header.pos
            /\ rows' = <<>>
            /\ chunk_number' = 0
            /\ upload_pc' = "loop"
            /\ UNCHANGED upload_exc
       ELSE \* next(reader) on an empty file
            /\ upload_pc' = "raised"
            /\ upload_exc' = "StopIteration"
            /\ UNCHANGED <<header_str, reader_pos, rows, chunk_number>>
    /\ UNCHANGED <<query_vars, load_vars, file, rows_per_chunk, uploads, printed, file_path, arg_file_name,
                   dataset_id>>

\* lines 590-594: a row is read and buffered, the buffer is not full yet
UploadRowBuffered ==
    /\ upload_pc = "loop"
    /\ has_next(file, reader_pos)
    /\ LET row == next_record(file, reader_pos)
           buffer == Append(rows, quoted_row(row.fields)) IN
       /\ ~chunk_full(buffer, rows_per_chunk)
       /\ rows' = buffer
       /\ reader_pos' = row.pos
    /\ UNCHANGED <<query_vars, load_vars, file, rows_per_chunk, upload_pc, upload_exc, total_rows, pbar_n,
                   header_str, chunk_number, uploads, printed, file_path, file_name,
                   arg_file_name, dataset_id>>

\* lines 590-598: a row is read, the buffer is full, the chunk is submitted
\* and the remote side answers
UploadRowChunk ==
    /\ upload_pc = "loop"
    /\ has_next(file, reader_pos)
    /\ LET row == next_record(file, reader_pos)
           buffer == Append(rows, quoted_row(row.fields)) IN
       /\ chunk_full(buffer, rows_per_chunk)
       /\ chunk_number' = next_chunk_number
       /\ \E status_code \in UploadStatusCodes :
            /\ upload_chunk(make_chunk_data(header_str, buffer), next_chunk_number,
                            buffer, status_code)
            /\ printed' = chunk_printed(next_chunk_number, status_code)
       /\ rows' = <<>>
       /\ reader_pos' = row.pos
    /\ UNCHANGED <<query_vars, load_vars, file, rows_per_chunk, upload_pc, upload_exc, total_rows,
                   header_str, file_path, file_name, arg_file_name, dataset_id>>

\* lines 590-597: as UploadRowChunk, but requests.post raises
UploadRowChunkRaises ==
    /\ upload_pc = "loop"
    /\ has_next(file, reader_pos)
    /\ LET row == next_record(file, reader_pos)
           buffer == Append(rows, quoted_row(row.fields)) IN
       /\ chunk_full(buffer, rows_per_chunk)
       /\ chunk_number' = next_chunk_number
       /\ upload_chunk_raises(make_chunk_data(header_str, buffer), next_chunk_number,
                                buffer)
       /\ rows' = buffer
       /\ reader_pos' = row.pos
    /\ UNCHANGED <<query_vars, load_vars, file, rows_per_chunk, total_rows, header_str, file_path, file_name,
                   arg_file_name, dataset_id>>

\* lines 600-606: the reader is exhausted; the remaining rows, if any, are
\* submitted as the last chunk; the bar is closed and the message printed
UploadFinish ==
    /\ upload_pc = "loop"
    /\ ~has_next(file, reader_pos)
    /\ IF rows # <<>>
       THEN /\ chunk_number' = next_chunk_number
            /\ \E status_code \in UploadStatusCodes :
                 /\ upload_chunk(make_chunk_data(header_str, rows), next_chunk_number,
                                 rows, status_code)
                 /\ printed' = Append(chunk_printed(next_chunk_number, status_code),
                                      <<"Upload completed successfully.">>)
       ELSE /\ printed' = Append(printed, <<"Upload completed successfully.">>)
            /\ UNCHANGED <<chunk_number, uploads, pbar_n>>
    /\ upload_pc' = "done"
    /\ UNCHANGED <<query_vars, load_vars, file, rows_per_chunk, upload_exc, total_rows, header_str, reader_pos,
                   rows, file_path, file_name, arg_file_name, dataset_id>>

\* lines 600-603: the last chunk's requests.post raises
UploadFinishRaises ==
    /\ upload_pc = "loop"
    /\ ~has_next(file, reader_pos)
    /\ rows # <<>>
    /\ chunk_number' = next_chunk_number
    /\ upload_chunk_raises(make_chunk_data(header_str, rows), next_chunk_number, rows)
    /\ UNCHANGED <<query_vars, load_vars, file, rows_per_chunk, total_rows, header_str, reader_pos, rows,
                   file_path, file_name, arg_file_name, dataset_id>>

UploadNext ==
    \/ UploadOpen
    \/ UploadRowBuffered
    \/ UploadRowChunk
    \/ UploadRowChunkRaises
    \/ UploadFinish
    \/ UploadFinishRaises

SpecUpload == UploadInit /\ [][UploadNext]_vars

-----------------------------------------------------------------------------
(* FastAPI._query and raise_bagel_error *)

max_retries == 3
retry_delay == 1

\* errors.error_types: the error codes that have a typed error
error_types == {"InvalidDimension", "IDAlreadyExists"}

\* bodies of successful answers of the query endpoint
ResultBodies ==
    {[ids |-> "ids-1", distances |-> "distances-1", documents |-> "documents-1"],
     [ids |-> "ids-2"]}

\* bodies of failing answers: a recognized error code, an unrecognized one,
\* and a body that is no JSON object
ErrorBodies ==
    {[error |-> "InvalidDimension", message |-> "dimension 3, expected 2"],
     [error |-> "Overloaded", message |-> "try again"],
     [text |-> "Bad Gateway"]}

QueryResponses ==
    {[status_code |-> 200, body |-> b] : b \in ResultBodies}
    \cup {[status_code |-> c, body |-> b] : c \in {404, 503}, b \in ErrorBodies}

\* requests.Response.ok: raise_for_status() does not raise
ok(r) == ~(400 <= r.status_code /\ r.status_code < 600)

\* body.get(key, None)
get(body, key) == IF key \in DOMAIN body THEN body[key] ELSE "None"

\* QueryResult(ids=body["ids"], distances=body.get("distances", None), ...)
QueryResult(body) ==
    [kind |-> "QueryResult",
     ids |-> body.ids,
     distances |-> get(body, "distances"),
     embeddings |-> get(body, "embeddings"),
     metadatas |-> get(body, "metadatas"),
     documents |-> get(body, "documents")]

\* raise_bagel_error(resp): the exception it raises, or kind "none" when it returns
raise_bagel_error(r) ==
    IF ok(r) THEN [kind |-> "none"]
    ELSE IF /\ "error" \in DOMAIN r.body
            /\ r.body.error \in error_types
            /\ "message" \in DOMAIN r.body
         THEN [kind |-> "error", type |-> r.body.error, arg |-> r.body.message]
         ELSE [kind |-> "error", type |-> "Exception", arg |-> r.body]

\* mutant of may_sleep: the delay is taken after the last attempt too
may_sleep_always(n) == n < max_retries

\* attempt < max_retries - 1
may_sleep(n) == n < max_retries - 1

\* mutant of final_resp: the first response is inspected, not the last
final_resp_first == query_log[1].resp

\* the resp that line 456 hands to raise_bagel_error
final_resp == resp

\* mutant of pc_after_raise: the exception is swallowed and the attempt is
\* tried again
pc_after_raise_retry == "loop"

\* where _query is after requests.post raised: no try/except surrounds the
\* call, the exception leaves the loop and _query
pc_after_raise == "done"

QueryInit ==
    /\ UploadIdle
    /\ LoadIdle
    /\ query_pc = "loop"
    /\ attempt = 0
    /\ resp = [status_code |-> 0, body |-> [unset |-> TRUE]]
    /\ query_log = <<>>
    /\ slept = 0
    /\ query_outcome = [kind |-> "none"]

\* lines 435-452: an attempt is answered with a success; the loop is left
QueryAttemptOk ==
    /\ query_pc = "loop"
    /\ attempt < max_retries
    /\ \E r \in QueryResponses :
         /\ ok(r)
         /\ resp' = r
         /\ query_log' = Append(query_log, [event |-> "post", resp |-> r])
    /\ query_pc' = "after_loop"
    /\ UNCHANGED <<attempt, slept, query_outcome, upload_vars, load_vars>>

\* lines 435-454: an attempt is answered with a failure; the delay is taken
\* unless this was the last attempt, and the loop goes on to the next attempt
QueryAttemptFails ==
    /\ query_pc = "loop"
    /\ attempt < max_retries
    /\ \E r \in QueryResponses :
         /\ ~ok(r)
         /\ resp' = r
         /\ query_log' = (IF may_sleep(attempt)
                          THEN query_log \o <<[event |-> "post", resp |-> r],
                                              [event |-> "sleep", resp |-> r]>>
                          ELSE Append(query_log, [event |-> "post", resp |-> r]))
    /\ slept' = (IF may_sleep(attempt) THEN slept + retry_delay ELSE slept)
    /\ attempt' = attempt + 1
    /\ query_pc' = (IF attempt + 1 < max_retries THEN "loop" ELSE "after_loop")
    /\ UNCHANGED <<query_outcome, upload_vars, load_vars>>

\* lines 436-449: requests.post raises; the exception leaves _query
QueryAttemptRaises ==
    /\ query_pc = "loop"
    /\ attempt < max_retries
    /\ query_log' = Append(query_log, [event |-> "post_raised", resp |-> resp])
    /\ query_outcome' = [kind |-> "error", type |-> "ConnectionError", arg |-> "None"]
    /\ query_pc' = pc_after_raise
    /\ UNCHANGED <<attempt, resp, slept, upload_vars, load_vars>>

\* lines 456-465: the last response is inspected
QueryReturn ==
    /\ query_pc = "after_loop"
    /\ query_outcome' = (IF raise_bagel_error(final_resp).kind = "error"
                         THEN raise_bagel_error(final_resp)
                         ELSE QueryResult(final_resp.body))
    /\ query_pc' = "done"
    /\ UNCHANGED <<attempt, resp, query_log, slept, upload_vars, load_vars>>

QueryNext ==
    \/ QueryAttemptOk
    \/ QueryAttemptFails
    \/ QueryAttemptRaises
    \/ QueryReturn

SpecQuery == QueryInit /\ [][QueryNext]_vars

-----------------------------------------------------------------------------
(* FastAPI.load_dataset *)

\* a missing value of a dataframe (no text is this sequence)
NaN == <<"NaN">>

\* the label pandas gives column i of a header: an empty name is
\* 'Unnamed: i', a repeated name x is x, x.1, x.2, ...
column_label(header, i) ==
    IF header[i] = <<>> THEN [name |-> <<"Unnamed">>, n |-> i - 1]
    ELSE [name |-> header[i],
          n |-> Cardinality({j \in 1..(i - 1) : header[j] = header[i]})]

RECURSIVE eof_inside_string(_, _)
\* whether the text ends inside a quoted field
eof_inside_string(text, i) ==
    IF has_next(text, i)
    THEN LET r == next_record(text, i) IN r.open_quote \/ eof_inside_string(text, r.pos)
    ELSE FALSE

RECURSIVE tokenize(_, _)
\* the records of the text, blank lines skipped; the tokenizer of read_csv
\* follows the automaton of parse_record on these characters
tokenize(text, i) ==
    IF has_next(text, i)
    THEN LET r == next_record(text, i) IN
         (IF r.fields = <<>> THEN <<>> ELSE <<r.fields>>) \o tokenize(text, r.pos)
    ELSE <<>>

\* the value of field p of a record: missing and empty fields are NaN
field_value(record, p) ==
    IF p > Len(record) \/ record[p] = <<>> THEN NaN ELSE record[p]

\* pd.read_csv(StringIO(text), on_bad_lines='skip'): the first record is the
\* header; the table is as wide as the wider of the header and the first
\* data record, the extra leading fields being the index; a later record
\* with more fields is a bad line and is skipped, one with fewer is filled
\* with NaN.  raised names the exception when read_csv raises.
read_csv(text) ==
    LET records == tokenize(text, 1) IN
    IF eof_inside_string(text, 1)
    THEN [raised |-> "ParserError", columns |-> <<>>, rows |-> <<>>]
    ELSE IF records = <<>>
    THEN [raised |-> "EmptyDataError", columns |-> <<>>, rows |-> <<>>]
    ELSE LET header == records[1]
             data == Tail(records)
             width == IF data = <<>> THEN Len(header) ELSE Max(Len(header), Len(data[1]))
             leading == width - Len(header)
             kept == SelectSeq(data, LAMBDA r : Len(r) <= width)
         IN  [raised |-> "none",
              columns |-> [i \in 1..Len(header) |-> column_label(header, i)],
              rows |-> [j \in 1..Len(kept) |->
                          [i \in 1..Len(header) |-> field_value(kept[j], leading + i)]]]

\* pd.DataFrame()
DataFrame == [raised |-> "none", columns |-> <<>>, rows |-> <<>>]

RECURSIVE concat_columns(_, _)
\* the columns of pd.concat(frames): the union, in order of first appearance
concat_columns(frames, seen) ==
    IF frames = <<>> THEN seen
    ELSE concat_columns(Tail(frames),
                        seen \o SelectSeq(Head(frames).columns,
                                          LAMBDA c : c \notin Range(seen)))

\* the rows of a frame laid out on the columns of the concatenation
reindex(frame, columns) ==
    [j \in 1..Len(frame.rows) |->
        [c \in 1..Len(columns) |->
            IF columns[c] \in Range(frame.columns)
            THEN frame.rows[j][CHOOSE i \in 1..Len(frame.columns) :
                                   frame.columns[i] = columns[c]]
            ELSE NaN]]

RECURSIVE concat_rows(_, _)
concat_rows(frames, columns) ==
    IF frames = <<>> THEN <<>>
    ELSE reindex(Head(frames), columns) \o concat_rows(Tail(frames), columns)

\* pd.concat(dfs, ignore_index=True)
concat(frames) ==
    LET columns == concat_columns(frames, <<>>) IN
    [raised |-> "none", columns |-> columns, rows |-> concat_rows(frames, columns)]

\* status codes of the answers of the two GET endpoints
LoadStatusCodes == {200, 404, 500}

\* chunk payloads the download endpoint answers with
Payloads ==
    {<<QUOTE, "a", QUOTE, NL, QUOTE, "a", QUOTE>>,
     <<QUOTE, "a", QUOTE, NL, QUOTE, "a", QUOTE, NL, QUOTE, COMMA, QUOTE>>,
     <<QUOTE, "a", QUOTE>>,
     <<QUOTE, "a", QUOTE, COMMA, QUOTE, COMMA, QUOTE, NL,
       QUOTE, "a", QUOTE, COMMA, QUOTE, QUOTE>>,
     <<"a", NL, "a", NL, "a", COMMA, "a">>,
     <<>>,
     <<QUOTE, "a", QUOTE, NL, QUOTE, "a">>}

\* mutant of raises_for_status: only server errors raise
raises_for_status_5xx(status_code) == 500 <= status_code /\ status_code < 600

\* whether response.raise_for_status() raises
raises_for_status(status_code) == 400 <= status_code /\ status_code < 600

\* mutant of in_range: range(1, total_chunks)
in_range_short(n, total) == 1 <= n /\ n < total

\* chunk_number in range(1, total_chunks + 1)
in_range(n, total) == 1 <= n /\ n < total + 1

\* an entry of load_log: a GET and its answer (raised: requests.get raised)
load_get(url, params, raised, status_code, text) ==
    [url |-> url, params |-> params, raised |-> raised,
     status_code |-> status_code, text |-> text]

\* a call of load_dataset is about to run
LoadStart ==
    /\ load_pc = "start"
    /\ load_exc = "none"
    /\ total_chunks = 0
    /\ load_chunk_number = 1
    /\ dfs = <<>>
    /\ load_log = <<>>
    /\ full_df = [returned |-> FALSE]

LoadInit == UploadIdle /\ QueryIdle /\ LoadStart

\* lines 549-553: the metadata call is answered with status_code and
\* total_chunks = n
load_info(status_code, n) ==
    /\ load_pc = "start"
    /\ load_log' = Append(load_log,
                          load_get("/dataset-info/", [dataset_id |-> dataset_id],
                                   FALSE, status_code, <<>>))
    /\ IF raises_for_status(status_code)
       THEN /\ load_pc' = "raised"
            /\ load_exc' = "HTTPError"
            /\ UNCHANGED total_chunks
       ELSE /\ load_pc' = "loop"
            /\ total_chunks' = n
            /\ UNCHANGED load_exc
    /\ dfs' = <<>>
    /\ load_chunk_number' = 1
    /\ UNCHANGED <<full_df, upload_vars, query_vars>>

\* lines 549-553: the metadata call is answered
LoadInfo == \E status_code \in LoadStatusCodes, n \in 0..MaxChunks : load_info(status_code, n)

\* line 549: requests.get of the metadata call raises
LoadInfoRaises ==
    /\ load_pc = "start"
    /\ load_log' = Append(load_log,
                          load_get("/dataset-info/", [dataset_id |-> dataset_id],
                                   TRUE, 0, <<>>))
    /\ load_pc' = "raised"
    /\ load_exc' = "ConnectionError"
    /\ UNCHANGED <<total_chunks, load_chunk_number, dfs, full_df, upload_vars, query_vars>>

\* lines 555-560: the next chunk is requested and answered with status_code
\* and the payload text
load_chunk(status_code, text) ==
    /\ load_pc = "loop"
    /\ in_range(load_chunk_number, total_chunks)
    /\ load_log' = Append(load_log,
                          load_get("/download-dataset/",
                                   [dataset_id |-> dataset_id,
                                    chunk_number |-> load_chunk_number],
                                   FALSE, status_code, text))
    /\ IF raises_for_status(status_code)
       THEN /\ load_pc' = "raised"
            /\ load_exc' = "HTTPError"
            /\ UNCHANGED <<dfs, load_chunk_number>>
       ELSE IF read_csv(text).raised # "none"
       THEN /\ load_pc' = "raised"
            /\ load_exc' = read_csv(text).raised
            /\ UNCHANGED <<dfs, load_chunk_number>>
       ELSE /\ dfs' = Append(dfs, read_csv(text))
            /\ load_chunk_number' = load_chunk_number + 1
            /\ UNCHANGED <<load_pc, load_exc>>
    /\ UNCHANGED <<total_chunks, full_df, upload_vars, query_vars>>

\* lines 555-560: the next chunk is requested and answered
LoadChunk == \E status_code \in LoadStatusCodes, text \in Payloads : load_chunk(status_code, text)

\* lines 556-557: requests.get of a chunk raises
LoadChunkRaises ==
    /\ load_pc = "loop"
    /\ in_range(load_chunk_number, total_chunks)
    /\ load_log' = Append(load_log,
                          load_get("/download-dataset/",
                                   [dataset_id |-> dataset_id,
                                    chunk_number |-> load_chunk_number],
                                   TRUE, 0, <<>>))
    /\ load_pc' = "raised"
    /\ load_exc' = "ConnectionError"
    /\ UNCHANGED <<total_chunks, load_chunk_number, dfs, full_df, upload_vars, query_vars>>

\* lines 563-565: the loop is over; the chunks are concatenated and returned
LoadReturn ==
    /\ load_pc = "loop"
    /\ ~in_range(load_chunk_number, total_chunks)
    /\ full_df' = [returned |-> TRUE,
                   table |-> IF dfs # <<>> THEN concat(dfs) ELSE DataFrame]
    /\ load_pc' = "returned"
    /\ UNCHANGED <<load_exc, total_chunks, load_chunk_number, dfs, load_log,
                   upload_vars, query_vars>>

LoadNext ==
    \/ LoadInfo
    \/ LoadInfoRaises
    \/ LoadChunk
    \/ LoadChunkRaises
    \/ LoadReturn

SpecLoad == LoadInit /\ [][LoadNext]_vars

-----------------------------------------------------------------------------
(* upload_dataset followed by load_dataset of the same dataset_id, against *)
(* a remote side that stores every chunk it answers 200 under its          *)
(* (dataset_id, chunk_number), reports as total_chunks the number of       *)
(* chunks submitted and serves a stored chunk as it was submitted.         *)

\* the remote side holds the chunk numbered n
stored(n) ==
    \E i \in 1..Len(uploads) :
        /\ uploads[i].request.chunk_number = n
        /\ uploads[i].request.dataset_id = dataset_id
        /\ uploads[i].status_code = 200

\* the content of the stored chunk numbered n
stored_content(n) ==
    LET i == CHOOSE i \in 1..Len(uploads) :
                 uploads[i].request.chunk_number = n /\ uploads[i].status_code = 200
    IN  uploads[i].request.data_file.content

RoundTripInit == QueryIdle /\ UploadStart /\ LoadStart

\* the upload has ended; the metadata call of load_dataset is answered
RoundTripInfo ==
    /\ upload_pc = "done"
    /\ load_info(200, Len(uploads))

\* the next chunk is requested: the remote side serves it if it holds it
\* and answers 404 otherwise
RoundTripChunk ==
    /\ upload_pc = "done"
    /\ IF stored(load_chunk_number)
       THEN load_chunk(200, stored_content(load_chunk_number))
       ELSE load_chunk(404, <<>>)

RoundTripNext ==
    \/ UploadNext
    \/ RoundTripInfo
    \/ RoundTripChunk
    \/ LoadReturn

SpecRoundTrip == RoundTripInit /\ [][RoundTripNext]_vars

-----------------------------------------------------------------------------
(* Properties of upload_dataset *)

RECURSIVE records_from(_, _)
\* the records csv.reader yields from position i on
records_from(text, i) ==
    IF has_next(text, i)
    THEN LET r == next_record(text, i) IN <<r.fields>> \o records_from(text, r.pos)
    ELSE <<>>

\* the file's data rows: the records after the header
DataRows == IF has_next(file, 1) THEN records_from(file, next_record(file, 1).pos) ELSE <<>>

\* the file's data rows as upload_dataset encodes them
EncodedDataRows == [j \in 1..Len(DataRows) |-> quoted_row(DataRows[j])]

CeilDiv(n, k) == (n + k - 1) \div k

\* the number of chunks n rows make
NumChunks == CeilDiv(Len(DataRows), rows_per_chunk)

\* the rows of chunk i when the file is cut into windows of rows_per_chunk rows
WindowRows(i) ==
    SubSeq(EncodedDataRows, (i - 1) * rows_per_chunk + 1,
           Min(i * rows_per_chunk, Len(DataRows)))

RECURSIVE SentRows(_)
\* the rows of the first m submitted chunks, in submission order
SentRows(m) == IF m = 0 THEN <<>> ELSE SentRows(m - 1) \o uploads[m].rows

RECURSIVE AcceptedRowCount(_)
\* the number of rows in those of the first m submissions that returned 200
AcceptedRowCount(m) ==
    IF m = 0 THEN 0
    ELSE AcceptedRowCount(m - 1)
         + (IF uploads[m].status_code = 200 THEN Len(uploads[m].rows) ELSE 0)

AllAccepted == \A i \in 1..Len(uploads) : uploads[i].status_code = 200
SomeRefused == \E i \in 1..Len(uploads) :
                   ~uploads[i].raised /\ uploads[i].status_code # 200
Completed == printed # <<>> /\ printed[Len(printed)] = <<"Upload completed successfully.">>

\* C1: with n data rows and rows_per_chunk = k, the chunks submitted are
\* numbered 1, 2, ... in submission order, never more than ceil(n/k) of them,
\* exactly ceil(n/k) when the call has ended; every chunk but the last
\* carries k rows, the last carries the 1..k rows that remain.
C1_ChunkCountAndSizes ==
    LET n == Len(DataRows)
        k == rows_per_chunk
    IN  /\ Len(uploads) <= CeilDiv(n, k)
        /\ \A i \in 1..Len(uploads) :
              /\ uploads[i].request.chunk_number = i
              /\ Len(uploads[i].rows) = (IF i < CeilDiv(n, k) THEN k
                                         ELSE n - (CeilDiv(n, k) - 1) * k)
              /\ Len(uploads[i].rows) \in 1..k
        /\ upload_pc = "done" => Len(uploads) = CeilDiv(n, k)

\* a finished upload of 3 data rows with rows_per_chunk = 2: chunks of 2 and 1 rows
C1_Witness ==
    /\ upload_pc = "done"
    /\ rows_per_chunk = 2
    /\ Len(DataRows) = 3
    /\ Len(uploads) = 2
    /\ Len(uploads[2].rows) = 1

\* a finished upload of a file that has a header and no data row: no chunk
C1_WitnessEmpty == upload_pc = "done" /\ Len(DataRows) = 0 /\ uploads = <<>>

\* C2: every submitted chunk is the full header line followed by its rows,
\* and the rows of the submitted chunks, in chunk order, are the file's data
\* rows in file order: a prefix of them while the call runs, all of them
\* when it has ended.
C2_ChunksPartitionRows ==
    LET header_line == quoted_row(next_record(file, 1).fields) \o <<NL>>
        sent == SentRows(Len(uploads))
    IN  /\ \A i \in 1..Len(uploads) :
              uploads[i].request.data_file.content
                  = header_line \o join(uploads[i].rows, <<NL>>)
        /\ Len(sent) <= Len(DataRows)
        /\ sent = SubSeq(EncodedDataRows, 1, Len(sent))
        /\ upload_pc = "done" => sent = EncodedDataRows

\* a finished upload in two chunks whose rows differ
C2_Witness ==
    /\ upload_pc = "done"
    /\ Len(uploads) = 2
    /\ uploads[1].rows # uploads[2].rows
    /\ Len(DataRows[1]) = 1

\* C7: once a submission was answered with a status other than 200, the
\* chunks are still numbered by position (no number is used twice), chunk j
\* still carries the j-th window of the file's rows, the call is not left
\* by an exception because of it, and a call that has ended has submitted
\* every chunk and printed the completion message.
C7_RefusedChunkChangesNothing ==
    SomeRefused =>
        /\ \A j \in 1..Len(uploads) :
              /\ uploads[j].request.chunk_number = j
              /\ uploads[j].rows = WindowRows(j)
        /\ upload_pc = "raised" => uploads[Len(uploads)].raised
        /\ upload_pc = "done" => Len(uploads) = NumChunks /\ Completed

\* a finished upload whose first chunk was refused and whose second was accepted
C7_Witness ==
    /\ upload_pc = "done"
    /\ Len(uploads) = 2
    /\ uploads[1].status_code = 500
    /\ uploads[2].status_code = 200
    /\ Completed

\* a field as csv.writer writes it: quoted only when it holds a quote, a
\* comma or a newline (or is the only, empty, field of its row)
WrittenField(field, alone) ==
    IF (\E i \in 1..Len(field) : field[i] \in {QUOTE, COMMA, NL}) \/ (alone /\ field = <<>>)
    THEN quoted_field(field) ELSE field

WrittenRow(row) ==
    join([i \in 1..Len(row) |-> WrittenField(row[i], Len(row) = 1)], <<COMMA>>) \o <<NL>>

RECURSIVE WrittenRows(_)
WrittenRows(records) ==
    IF records = <<>> THEN <<>> ELSE WrittenRow(Head(records)) \o WrittenRows(Tail(records))

\* the file is what csv.writer writes, with newline line ends, for a table
\* whose header is one line of non-empty names and whose rows have as many
\* fields as the header
WrittenFile ==
    LET records == records_from(file, 1) IN
    /\ records # <<>>
    /\ \A i \in 1..Len(records) : Len(records[i]) = Len(records[1]) /\ Len(records[i]) >= 1
    /\ \A i \in 1..Len(records[1]) :
          records[1][i] # <<>> /\ NL \notin Range(records[1][i])
    /\ file = WrittenRows(records)

\* C8: a submission that raises does not end the call: upload_dataset goes
\* on with the next chunk.
C8_TransportFailureNotFatal ==
    (\E i \in 1..Len(uploads) : uploads[i].raised) => upload_pc \in {"loop", "done"}

\* The statement of C9 on every file: the progress count is the number of data rows of the chunks that were
\* answered 200, it never exceeds the pre-scanned total, and at the end of
\* the call it equals that total iff every submission was answered 200.
C9_OnAnyFile ==
    upload_pc \in {"loop", "done"} =>
        /\ pbar_n = AcceptedRowCount(Len(uploads))
        /\ pbar_n <= total_rows
        /\ upload_pc = "done" => (pbar_n = total_rows <=> AllAccepted)

\* C9, for the input section 4.2 of the specification asks for (a readable
\* text file with a well-formed header line): on the files csv.writer
\* writes, the progress count is the number of data rows of the chunks that
\* were answered 200, never exceeds the pre-scanned total, and at the end
\* of the call equals that total iff every submission was answered 200.
C9_ProgressCountsAcceptedRows == WrittenFile => C9_OnAnyFile

\* The statement of C10 on every file: when every submission was answered
\* 200, the rows submitted are as many as the pre-scan counted.
C10_OnAnyFile ==
    (upload_pc = "done" /\ AllAccepted) => Len(SentRows(Len(uploads))) = total_rows

\* C10, for the input section 4.2 of the specification asks for: on the
\* files csv.writer writes, when every submission was answered 200 the data
\* rows submitted are as many as the pre-scan counted (lines minus one).
C10_SubmittedRowsEqualPreScan == WrittenFile => C10_OnAnyFile

\* C11: every submitted chunk carries its data_file part under the file_name
\* the caller passed, together with the caller's dataset_id and the chunk's
\* number.
C11_CarriesCallerFileName ==
    \A i \in 1..Len(uploads) :
        /\ uploads[i].request.data_file.name = arg_file_name
        /\ uploads[i].request.dataset_id = dataset_id
        /\ uploads[i].request.chunk_number = i

-----------------------------------------------------------------------------
(* Properties of _query *)

QueryPosts == SelectSeq(query_log, LAMBDA e : e.event = "post")
QuerySleeps == SelectSeq(query_log, LAMBDA e : e.event = "sleep")
QueryRaised == \E i \in 1..Len(query_log) : query_log[i].event = "post_raised"

\* C3: when every attempt is answered, requests and delays alternate,
\* starting with a request; at most 3 requests are issued and none after a
\* success; every delay lasts retry_delay; between attempts as many delays
\* as requests have been taken, and once the loop is left one delay fewer
\* than requests (none after the last), the last request being a success or
\* the third.
C3_RetryUntilSuccessOrThree ==
    ~QueryRaised =>
        LET P == Len(QueryPosts)
            S == Len(QuerySleeps)
        IN  /\ P <= 3
            /\ \A i \in 1..Len(query_log) :
                  query_log[i].event = (IF i % 2 = 1 THEN "post" ELSE "sleep")
            /\ \A i \in 1..(P - 1) : ~ok(QueryPosts[i].resp)
            /\ slept = S * retry_delay
            /\ query_pc = "loop" => S = P /\ P < 3
            /\ query_pc \in {"after_loop", "done"} =>
                  /\ P >= 1
                  /\ S = P - 1
                  /\ ok(QueryPosts[P].resp) \/ P = 3

\* fail, fail, success: 3 requests and 2 delays
C3_Witness ==
    /\ query_pc = "done"
    /\ ~QueryRaised
    /\ Len(QueryPosts) = 3
    /\ ok(QueryPosts[3].resp)
    /\ Len(QuerySleeps) = 2
    /\ slept = 2

\* three failures with different statuses: 3 requests and 2 delays
C3_WitnessAllFail ==
    /\ query_pc = "done"
    /\ Len(QueryPosts) = 3
    /\ ~ok(QueryPosts[3].resp)
    /\ QueryPosts[1].resp.status_code # QueryPosts[2].resp.status_code
    /\ Len(QuerySleeps) = 2

\* the error the body of a failing response translates to
ExpectedError(body) ==
    IF "error" \in DOMAIN body /\ body.error \in error_types
    THEN [kind |-> "error", type |-> body.error, arg |-> body.message]
    ELSE [kind |-> "error", type |-> "Exception", arg |-> body]

\* C4: when every attempt was answered, the outcome of _query is the result
\* parsed from the last response if that response is a success, and
\* otherwise the error built from the body of the third response.
C4_LastResponseDecides ==
    (query_pc = "done" /\ ~QueryRaised) =>
        LET last == QueryPosts[Len(QueryPosts)].resp IN
        IF ok(last)
        THEN query_outcome = [kind |-> "QueryResult",
                              ids |-> last.body.ids,
                              distances |-> get(last.body, "distances"),
                              embeddings |-> get(last.body, "embeddings"),
                              metadatas |-> get(last.body, "metadatas"),
                              documents |-> get(last.body, "documents")]
        ELSE /\ Len(QueryPosts) = 3
             /\ query_outcome = ExpectedError(QueryPosts[3].resp.body)

\* three failures, the first and the third with different bodies: the error
\* is the typed error of the third body
C4_Witness ==
    /\ query_pc = "done"
    /\ Len(QueryPosts) = 3
    /\ ~ok(QueryPosts[3].resp)
    /\ QueryPosts[1].resp.body # QueryPosts[3].resp.body
    /\ QueryPosts[2].resp.body # QueryPosts[3].resp.body
    /\ query_outcome.type = "InvalidDimension"

\* a success after two failures: the result of the third response
C4_WitnessSuccess ==
    /\ query_pc = "done"
    /\ Len(QueryPosts) = 3
    /\ ok(QueryPosts[3].resp)
    /\ query_outcome.kind = "QueryResult"
    /\ query_outcome.ids = "ids-2"

-----------------------------------------------------------------------------
(* Properties of load_dataset *)

ChunkGets == SelectSeq(load_log, LAMBDA e : e.url = "/download-dataset/")
InfoGets == SelectSeq(load_log, LAMBDA e : e.url = "/dataset-info/")

\* a GET that did not succeed: it raised, or it was answered with an error status
GetFailed(e) == e.raised \/ (400 <= e.status_code /\ e.status_code < 600)

RECURSIVE RowsBefore(_)
\* the number of rows in the payloads of the chunks requested before the i-th
RowsBefore(i) ==
    IF i <= 1 THEN 0
    ELSE RowsBefore(i - 1) + Len(read_csv(ChunkGets[i - 1].text).rows)

\* C5: the chunk requests are numbered 1, 2, ... in the order they are
\* issued and never go beyond total_chunks; a call that returns has issued
\* exactly total_chunks of them and returns a table whose rows are the rows
\* of chunk 1, then those of chunk 2, ...; with total_chunks = 0 only the
\* metadata call is made and the table is empty.
C5_DownloadInOrder ==
    /\ \A i \in 1..Len(ChunkGets) :
          ChunkGets[i].params.chunk_number = i /\ i <= total_chunks
    /\ load_pc = "returned" =>
          /\ Len(ChunkGets) = total_chunks
          /\ full_df.returned
          /\ Len(full_df.table.rows) = RowsBefore(total_chunks + 1)
          /\ \A i \in 1..total_chunks :
                LET chunk == read_csv(ChunkGets[i].text) IN
                \A j \in 1..Len(chunk.rows), c \in 1..Len(chunk.columns) :
                    \E k \in 1..Len(full_df.table.columns) :
                        /\ full_df.table.columns[k] = chunk.columns[c]
                        /\ full_df.table.rows[RowsBefore(i) + j][k] = chunk.rows[j][c]
          /\ total_chunks = 0 => Len(load_log) = 1 /\ full_df.table = DataFrame

\* a download of two chunks with different payloads, three rows in all
C5_Witness ==
    /\ load_pc = "returned"
    /\ total_chunks = 2
    /\ ChunkGets[1].text # ChunkGets[2].text
    /\ Len(read_csv(ChunkGets[1].text).rows) = 2
    /\ Len(full_df.table.rows) = 3

\* a download with total_chunks = 0
C5_WitnessZero ==
    /\ load_pc = "returned"
    /\ total_chunks = 0
    /\ Len(load_log) = 1

\* C6: a GET that fails is the last one of the call, and the call ends with
\* an exception: after a failed metadata call no chunk is requested, after
\* a failed request for chunk i no later chunk is requested; a call that
\* ends with an exception returns no table.
C6_AllOrNothing ==
    /\ \A i \in 1..Len(load_log) :
          GetFailed(load_log[i]) => i = Len(load_log) /\ load_pc = "raised"
    /\ (InfoGets # <<>> /\ GetFailed(InfoGets[1])) => ChunkGets = <<>>
    /\ load_pc = "raised" => ~full_df.returned

\* the request for chunk 2 is answered 404 after chunk 1 was read
C6_Witness ==
    /\ load_pc = "raised"
    /\ Len(ChunkGets) = 2
    /\ ChunkGets[2].status_code = 404
    /\ Len(dfs) = 1
    /\ Len(dfs[1].rows) >= 1
    /\ ~full_df.returned

\* the metadata call is answered with an error status
C6_WitnessInfo ==
    /\ load_pc = "raised"
    /\ Len(load_log) = 1
    /\ load_log[1].status_code = 500

\* C14: an attempt of _query whose request raises ends the query at once
\* with that error: the raising request is the last event of the call (no
\* delay and no request follows it), the call has ended with the transport
\* error as its outcome whichever attempt raised, only the delays taken for
\* the failing responses before it were taken, and no response is inspected.
C14_TransportErrorEndsQuery ==
    QueryRaised =>
        /\ \A i \in 1..Len(query_log) :
              query_log[i].event = "post_raised" => i = Len(query_log)
        /\ query_pc = "done"
        /\ query_outcome = [kind |-> "error", type |-> "ConnectionError", arg |-> "None"]
        /\ Len(QueryPosts) < max_retries
        /\ \A i \in 1..Len(QueryPosts) : ~ok(QueryPosts[i].resp)
        /\ Len(QuerySleeps) = Len(QueryPosts)
        /\ slept = Len(QueryPosts) * retry_delay

\* the first request raises: one request in all, no delay, the call has ended
C14_Witness ==
    /\ query_pc = "done"
    /\ Len(query_log) = 1
    /\ query_log[1].event = "post_raised"
    /\ slept = 0
    /\ query_outcome.type = "ConnectionError"

\* the second request raises after a failing response and its delay
C14_WitnessSecond ==
    /\ query_pc = "done"
    /\ Len(query_log) = 3
    /\ query_log[3].event = "post_raised"
    /\ slept = retry_delay

-----------------------------------------------------------------------------
(* Properties of upload_dataset followed by load_dataset *)

\* the header record of the file
Header == next_record(file, 1).fields

\* the labels of a table whose header is kept as it was written
LabelsOf(header) == [i \in 1..Len(header) |-> [name |-> header[i], n |-> 0]]

\* The statement of C12 on every file: when every chunk of the upload was
\* answered 200, the download that follows returns a table, and the table's
\* rows are the file's data rows, field text for field text, in file
\* order, under the file's header.
C12_OnAnyFile ==
    (upload_pc = "done" /\ AllAccepted /\ load_pc \in {"returned", "raised"}) =>
        /\ load_pc = "returned"
        /\ full_df.table.rows = DataRows
        /\ DataRows # <<>> => full_df.table.columns = LabelsOf(Header)

\* C12: upload followed by download is a round trip: on the files
\* csv.writer writes (a header line of non-empty names, rows with as many
\* fields as the header), when every chunk of the upload was answered 200
\* and stored and the remote side reports as total_chunks the number of
\* chunks submitted, load_dataset returns exactly the file's data rows in
\* their original order, with a single header.
C12_RoundTrip == WrittenFile => C12_OnAnyFile

\* the records of chunk i: the i-th window of rows_per_chunk data rows
WindowRecords(i) ==
    SubSeq(DataRows, (i - 1) * rows_per_chunk + 1, Min(i * rows_per_chunk, Len(DataRows)))

\* no field of the records holds a newline
NoEmbeddedNewline(records) ==
    \A j \in 1..Len(records) : \A p \in 1..Len(records[j]) : NL \notin Range(records[j][p])

\* the records form a table: a header of non-empty names and rows with as
\* many fields as the header
IsTable(header, records) ==
    /\ Len(header) >= 1
    /\ \A p \in 1..Len(header) : header[p] # <<>>
    /\ \A j \in 1..Len(records) : Len(records[j]) = Len(header)

\* The statement of C13 on every header and rows the upload encodes: when
\* no field holds a newline, the payload of a chunk is the encoding of the
\* header and the chunk's rows, and decoding it gives back that header and
\* those rows, with the same field count per row and the same field text.
C13_OnAnyRecords ==
    \A i \in 1..Len(dfs) :
        LET records == WindowRecords(i) IN
        NoEmbeddedNewline(<<Header>> \o records) =>
            /\ ChunkGets[i].text
                   = make_chunk_data(quoted_row(Header) \o <<NL>>,
                                     [j \in 1..Len(records) |-> quoted_row(records[j])])
            /\ dfs[i].columns = LabelsOf(Header)
            /\ dfs[i].rows = records

\* C13: the chunk encoding is invertible: for a header of non-empty names
\* and rows of as many fields, none holding a newline (fields may hold
\* commas and quotes), doubling the quotes of each field, wrapping it in
\* quotes, joining fields with commas and lines with newlines, and then
\* decoding gives back exactly the same header and rows (same field count
\* per row, same field text).
C13_EncodingInvertible ==
    (has_next(file, 1) /\ IsTable(Header, DataRows)) => C13_OnAnyRecords

====
